---- MODULE Spec2Model ----
(***************************************************************************)
(* European Sustainable Agriculture Advisor (streamlit_app.py).             *)
(*                                                                         *)
(* The model covers the EuropeanAgriDataService class (a dictionary cache  *)
(* with a 24 hour validity window and four fetch-with-fallback methods),   *)
(* get_recommendations (prompt formatting and the text-generation call)    *)
(* and the button handler of main.                                         *)
(*                                                                         *)
(* Two specifications share the variables:                                 *)
(*   SpecService  one service instance whose four fetchers are called in   *)
(*                any order with any parameters while time passes;         *)
(*   Spec         the button handler of main, one request after another.   *)
(***************************************************************************)
EXTENDS Integers, Sequences, FiniteSets, TLC

VARIABLES
    cache,            \* self.cache of the service instance in use
    now,              \* datetime.now(), in hours
    last,             \* what the most recent fetcher call did
    pc,               \* position of main's button handler
    region_name,      \* st.selectbox value of the request
    snapshot,         \* main's local data variables, by field
    recommendations,  \* main's local: the value get_recommendations returned
    request,          \* the current request: live calls, fallbacks, generation
    previous,         \* the same record for the request before it
    display,          \* what Streamlit has shown for the current request
    callers           \* threads inside get_fsdn_data on the one instance

vars == <<cache, now, last, pc, region_name, snapshot, recommendations,
          request, previous, display, callers>>

-----------------------------------------------------------------------------
(* Bounds of the model.                                                     *)

\* The clock advances in steps of TickHours and stops at MaxTime.
TickHours == 12
MaxTime == 24
\* Fetcher calls made directly on one service instance (SpecService).
MaxFetches == 2

-----------------------------------------------------------------------------
(* Python / JSON values.  Every value carries its kind, so values of        *)
(* different kinds can be told apart: null (None), str, num (an int),       *)
(* float, list, dict.  A float is given in ten-thousandths.  A dict is      *)
(* built from its <<key, value>> pairs in insertion order, the keys         *)
(* distinct: keys is that order, which str() follows, items the mapping.    *)

None == [kind |-> "null"]
JStr(s) == [kind |-> "str", s |-> s]
JNum(n) == [kind |-> "num", n |-> n]
JFloat(n) == [kind |-> "float", n |-> n]
JList(q) == [kind |-> "list", elems |-> q]
JDict(pairs) ==
    [kind |-> "dict",
     keys |-> [i \in 1..Len(pairs) |-> pairs[i][1]],
     items |-> [k \in {pairs[i][1] : i \in 1..Len(pairs)} |->
                   pairs[CHOOSE i \in 1..Len(pairs) : pairs[i][1] = k][2]]]

\* A response body that is not JSON (an HTML error page, an empty body).
Undecodable == [kind |-> "undecodable"]

-----------------------------------------------------------------------------
(* str() of the values the f-strings interpolate.                           *)

DigitChars == <<"0", "1", "2", "3", "4", "5", "6", "7", "8", "9">>
Digit(d) == DigitChars[d + 1]

RECURSIVE NatStr(_)
NatStr(n) == IF n < 10 THEN Digit(n) ELSE NatStr(n \div 10) \o Digit(n % 10)

RECURSIVE Pad(_, _)
Pad(f, w) == IF w = 0 THEN "" ELSE Pad(f \div 10, w - 1) \o Digit(f % 10)

RECURSIVE StripZeros(_, _)
StripZeros(f, w) ==
    IF w = 1 THEN Digit(f)
    ELSE IF f % 10 = 0 THEN StripZeros(f \div 10, w - 1)
    ELSE Pad(f, w)

\* str(x) of a float x >= 0 given in ten-thousandths: 437711 is 43.7711 and
\* prints "43.7711", 480000 is 48.0 and prints "48.0".
FloatStr(n) == NatStr(n \div 10000) \o "." \o StripZeros(n % 10000, 4)

\* repr(v): a str in single quotes (the strings of the model hold no quote
\* and no backslash), the elements of a list and the items of a dict in
\* their order, separated by ", ".
RECURSIVE Repr(_)
RECURSIVE ReprElems(_, _)
RECURSIVE ReprItems(_, _)

\* The first n elements of the list q.
ReprElems(q, n) ==
    IF n = 0 THEN ""
    ELSE (IF n = 1 THEN "" ELSE ReprElems(q, n - 1) \o ", ") \o Repr(q[n])

\* The first n items of the dict d.
ReprItems(d, n) ==
    IF n = 0 THEN ""
    ELSE (IF n = 1 THEN "" ELSE ReprItems(d, n - 1) \o ", ")
         \o "'" \o d.keys[n] \o "': " \o Repr(d.items[d.keys[n]])

Repr(v) ==
    CASE v.kind = "str" -> "'" \o v.s \o "'"
      [] v.kind = "num" -> NatStr(v.n)
      [] v.kind = "float" -> FloatStr(v.n)
      [] v.kind = "null" -> "None"
      [] v.kind = "list" -> "[" \o ReprElems(v.elems, Len(v.elems)) \o "]"
      [] OTHER -> "{" \o ReprItems(v, Len(v.keys)) \o "}"

\* str(v) as an f-string field renders it: the text of a str, repr(v) of
\* any other value.
PyStr(v) == IF v.kind = "str" THEN v.s ELSE Repr(v)

-----------------------------------------------------------------------------
(* Module data: DATA_SOURCES, the region catalogue of main, the fallbacks.  *)

DATA_SOURCES ==
    [agri_prices |-> "https://agridata.ec.europa.eu/api/v1/prices",
     fsdn |-> "https://agriculture.ec.europa.eu/api/fsdn",
     soil_data |-> "https://esdac.jrc.ec.europa.eu/api/soil",
     weather |-> "http://api.openweathermap.org/data/2.5/weather",
     eurostat |-> "https://ec.europa.eu/eurostat/api/dissemination/statistics/1.0/data/",
     fast_platform |-> "https://fastplatform.eu/api/v1/"]

\* regions of main; coordinates in ten-thousandths of a degree.
regions ==
    [Tuscany |-> [name |-> "Tuscany, Italy",
                  coordinates |-> <<437711, 112486>>,
                  soil_type |-> "Clay-Limestone"],
     Bavaria |-> [name |-> "Bavaria, Germany",
                  coordinates |-> <<487904, 114979>>,
                  soil_type |-> "Loess"]]

RegionNames == DOMAIN regions
Coordinates == {regions[r].coordinates : r \in RegionNames}

\* The value each fetcher returns from its except clause.  "EUR" stands for
\* the euro sign of the source's unit strings.
FsdnFallback ==
    JDict(<< <<"sustainability_metrics",
               JDict(<< <<"soil_health", JStr("medium")>>,
                        <<"water_efficiency", JStr("high")>>,
                        <<"biodiversity", JStr("medium")>> >>)>> >>)

FastFallback ==
    JDict(<< <<"soil_nutrients", JStr("moderate")>>,
             <<"recommended_practices",
               JList(<<JStr("crop_rotation"), JStr("minimum_tillage")>>)>> >>)

PricesFallback ==
    JDict(<< <<"Wheat", JDict(<< <<"price", JNum(250)>>,
                                 <<"unit", JStr("EUR/tonne")>> >>)>>,
             <<"Barley", JDict(<< <<"price", JNum(220)>>,
                                  <<"unit", JStr("EUR/tonne")>> >>)>> >>)

\* e is str(e) of the exception caught.
WeatherFallback(e) ==
    JDict(<< <<"temp", None>>, <<"humidity", None>>, <<"error", JStr(e)>> >>)

-----------------------------------------------------------------------------
(* The remote side: what requests.get and response.json can do.            *)

Sources == {"fsdn", "fast", "prices", "weather"}

\* One decodable body per source in the shape get_recommendations reads
\* (lines 116-126), an error document, and a JSON array.
LiveBody(src) ==
    CASE src = "fsdn" ->
             JDict(<< <<"soil_health", JStr("good")>>,
                      <<"water_efficiency", JStr("low")>>,
                      <<"biodiversity", JStr("high")>> >>)
      [] src = "fast" ->
             JDict(<< <<"soil_nutrients", JStr("rich")>>,
                      <<"recommended_practices",
                        JList(<<JStr("cover_crops")>>)>> >>)
      [] src = "prices" ->
             JDict(<< <<"Wheat", JDict(<< <<"price", JNum(260)>>,
                                          <<"unit", JStr("EUR/tonne")>> >>)>> >>)
      [] OTHER ->
             JDict(<< <<"main", JDict(<< <<"temp", JNum(18)>>,
                                         <<"humidity", JNum(60)>> >>)>> >>)

ErrorBody ==
    JDict(<< <<"cod", JNum(401)>>, <<"message", JStr("Invalid API key")>> >>)
ArrayBody == JList(<<>>)

\* requests.get raises (exc is the exception's text), or returns a response
\* with a status and a body.
ConnectionError == [exc |-> "ConnectionError", status |-> 0, body |-> Undecodable]
Response(status, body) == [exc |-> "", status |-> status, body |-> body]

\* The responses a source answers with: its data, a success whose body is
\* an array, a success whose body is not JSON, an error status with a JSON
\* error document, an error status with a body that is not JSON.
Responses(src) ==
    {Response(200, LiveBody(src)), Response(200, ArrayBody),
     Response(200, Undecodable), Response(500, ErrorBody),
     Response(500, Undecodable)}
HttpOutcomes(src) == {ConnectionError} \cup Responses(src)

\* The try block of a fetcher up to response.json(): the exception text it
\* raises, or "" when it yields http.body.  The status is never read.
TryError(http) ==
    IF http.exc # "" THEN http.exc
    ELSE IF http.body.kind = "undecodable" THEN "JSONDecodeError"
    ELSE ""

-----------------------------------------------------------------------------
(* class EuropeanAgriDataService.  The cache is a function from key to     *)
(* [timestamp, data]; c is self.cache and t is datetime.now().              *)

\* self.cache_duration = timedelta(hours=24)
cache_duration == 24

\* self.cache = {}
EmptyCache == [k \in {} |-> None]

__init__ == EmptyCache

\* A store that rebuilds the dictionary around the one key.
cache_data_alone(c, t, key, data) ==
    [k \in {key} |-> [timestamp |-> t, data |-> data]]

\* A store that keeps the entry a key already has.
cache_data_keeping(c, t, key, data) ==
    [k \in DOMAIN c \cup {key} |->
        IF k \in DOMAIN c THEN c[k] ELSE [timestamp |-> t, data |-> data]]

_cache_data(c, t, key, data) ==
    [k \in DOMAIN c \cup {key} |->
        IF k = key THEN [timestamp |-> t, data |-> data] ELSE c[k]]

\* A validity test that still accepts an entry whose age equals the duration.
is_cache_valid_inclusive(c, t, key) ==
    /\ key \in DOMAIN c
    /\ t - c[key].timestamp <= cache_duration

_is_cache_valid(c, t, key) ==
    /\ key \in DOMAIN c
    /\ t - c[key].timestamp < cache_duration

\* The cache keys the fetchers compose.
FsdnKey(region) == "fsdn_" \o region

\* A key for the second source composed with the prefix of the first.
FastKey_colliding(region) == "fsdn_" \o region

FastKey(region) == "fast_" \o region
PricesKey == "prices"

\* A coordinate in ten-thousandths rounded to two decimals.
Round2(n) == ((n + 50) \div 100) * 100

\* A weather key composed from the rounded coordinates.
WeatherKey_rounded(lat, lon) ==
    "weather_" \o FloatStr(Round2(lat)) \o "_" \o FloatStr(Round2(lon))

WeatherKey(lat, lon) == "weather_" \o FloatStr(lat) \o "_" \o FloatStr(lon)

\* Whether an except clause catches the exception: a bare "except:" catches
\* everything, "except Exception" every subclass of Exception.
ExceptionClasses == {"ConnectionError", "JSONDecodeError"}

\* Except clauses that catch network errors only.
Catches_network_only(clause, exc) == exc = "ConnectionError"

Catches(clause, exc) == clause = "bare" \/ exc \in ExceptionClasses

\* The three ways out of a fetcher.  ret is the value returned, cache the
\* cache afterwards, called whether requests.get was issued, fell whether
\* the except clause produced the result, raised the exception propagated
\* to the caller ("" when none).
CacheHit(c, key) ==
    [ret |-> c[key].data, cache |-> c, key |-> key,
     called |-> FALSE, fell |-> FALSE, raised |-> ""]

Stored(c, t, key, data) ==
    [ret |-> data, cache |-> _cache_data(c, t, key, data), key |-> key,
     called |-> TRUE, fell |-> FALSE, raised |-> ""]

\* An except clause that returns nothing.
Excepted_returning_None(c, key, clause, exc, fallback) ==
    [ret |-> None, cache |-> c, key |-> key,
     called |-> TRUE, fell |-> TRUE, raised |-> ""]

\* An except clause that drops the entry of the key.
Excepted_evicting(c, key, clause, exc, fallback) ==
    [ret |-> fallback, cache |-> [k \in DOMAIN c \ {key} |-> c[k]],
     key |-> key, called |-> TRUE, fell |-> TRUE, raised |-> ""]

\* An except clause that prefers the stored value, however old, to the
\* fallback.
Excepted_serving_stale(c, key, clause, exc, fallback) ==
    [ret |-> IF key \in DOMAIN c THEN c[key].data ELSE fallback,
     cache |-> c, key |-> key,
     called |-> TRUE, fell |-> TRUE, raised |-> ""]

Excepted(c, key, clause, exc, fallback) ==
    IF Catches(clause, exc)
    THEN [ret |-> fallback, cache |-> c, key |-> key,
          called |-> TRUE, fell |-> TRUE, raised |-> ""]
    ELSE [ret |-> None, cache |-> c, key |-> key,
          called |-> TRUE, fell |-> FALSE, raised |-> exc]

\* A fetcher whose cache hit restarts the clock of the entry.
get_fsdn_data_touching(c, t, region, http) ==
    IF _is_cache_valid(c, t, FsdnKey(region))
    THEN [CacheHit(c, FsdnKey(region)) EXCEPT
             !.cache = _cache_data(c, t, FsdnKey(region),
                                   c[FsdnKey(region)].data)]
    ELSE IF TryError(http) = ""
    THEN Stored(c, t, FsdnKey(region), http.body)
    ELSE Excepted(c, FsdnKey(region), "bare", TryError(http), FsdnFallback)

get_fsdn_data(c, t, region, http) ==
    IF _is_cache_valid(c, t, FsdnKey(region))
    THEN CacheHit(c, FsdnKey(region))
    ELSE IF TryError(http) = ""
    THEN Stored(c, t, FsdnKey(region), http.body)
    ELSE Excepted(c, FsdnKey(region), "bare", TryError(http), FsdnFallback)

get_fast_platform_data(c, t, region, http) ==
    IF _is_cache_valid(c, t, FastKey(region))
    THEN CacheHit(c, FastKey(region))
    ELSE IF TryError(http) = ""
    THEN Stored(c, t, FastKey(region), http.body)
    ELSE Excepted(c, FastKey(region), "bare", TryError(http), FastFallback)

\* A fetcher that stores what it returns on both paths.
get_market_prices_storing_fallback(c, t, http) ==
    IF _is_cache_valid(c, t, PricesKey)
    THEN CacheHit(c, PricesKey)
    ELSE IF TryError(http) = ""
    THEN Stored(c, t, PricesKey, http.body)
    ELSE [Stored(c, t, PricesKey, PricesFallback) EXCEPT !.fell = TRUE]

get_market_prices(c, t, http) ==
    IF _is_cache_valid(c, t, PricesKey)
    THEN CacheHit(c, PricesKey)
    ELSE IF TryError(http) = ""
    THEN Stored(c, t, PricesKey, http.body)
    ELSE Excepted(c, PricesKey, "bare", TryError(http), PricesFallback)

\* A fetcher that never consults the cache.
get_weather_data_always_live(c, t, lat, lon, http) ==
    IF TryError(http) = ""
    THEN Stored(c, t, WeatherKey(lat, lon), http.body)
    ELSE Excepted(c, WeatherKey(lat, lon), "Exception", TryError(http),
                  WeatherFallback(TryError(http)))

get_weather_data(c, t, lat, lon, http) ==
    IF _is_cache_valid(c, t, WeatherKey(lat, lon))
    THEN CacheHit(c, WeatherKey(lat, lon))
    ELSE IF TryError(http) = ""
    THEN Stored(c, t, WeatherKey(lat, lon), http.body)
    ELSE Excepted(c, WeatherKey(lat, lon), "Exception", TryError(http),
                  WeatherFallback(TryError(http)))

-----------------------------------------------------------------------------
(* State.                                                                   *)

\* No remote call was made.
NoHttp == [exc |-> "", status |-> 0, body |-> None]

NoFetch ==
    [n |-> 0, src |-> "", key |-> "", http |-> NoHttp, ret |-> None,
     called |-> FALSE, fell |-> FALSE, raised |-> ""]

\* The record of a fetcher call with result r; n counts the calls made on
\* the service instance.
FetchRecord(n, src, http, r) ==
    [n |-> n, src |-> src, key |-> r.key,
     http |-> IF r.called THEN http ELSE NoHttp,
     ret |-> r.ret, called |-> r.called, fell |-> r.fell, raised |-> r.raised]

\* No prompt was built.
NoPrompt ==
    [region |-> "", temperature |-> "", humidity |-> "", soil_type |-> "",
     soil_health |-> "", water_efficiency |-> "", biodiversity |-> "",
     market |-> None]

\* The fields of a request that main's handler fills in: the sources whose
\* fetcher issued requests.get, the sources whose fetcher fell back, whether
\* the generation call was made and how it ended, and how the request ended
\* ("text", "GenerationFailure", or "uncaught" for an exception that left
\* main), and the prompt sent.
NoRequest ==
    [region |-> "", start |-> 0, called |-> {}, fell |-> {},
     prompt |-> NoPrompt, gen_calls |-> 0, generation |-> "", outcome |-> ""]

\* What is kept of a request once the next one starts.
Summary(req) ==
    [NoRequest EXCEPT !.region = req.region, !.start = req.start,
                      !.called = req.called, !.fell = req.fell]

NoLocals == [k \in {} |-> None]

\* Two threads that may each run get_fsdn_data once on the one instance.
\* A caller is outside the method ("out"), past the validity test of line 43
\* and about to issue requests.get ("get"), holding the decoded body and
\* about to store it ("store"), or back with a value ("done").  overlap
\* tells whether the other caller was inside the method, for the same key,
\* when this one entered.
Callers == {1, 2}

NoCaller ==
    [pc |-> "out", region |-> "", key |-> "", overlap |-> FALSE,
     called |-> FALSE, http |-> NoHttp, data |-> None, stored |-> FALSE,
     ret |-> None]

Init ==
    /\ cache = __init__
    /\ now = 0
    /\ last = NoFetch
    /\ pc = "idle"
    /\ region_name = ""
    /\ snapshot = NoLocals
    /\ recommendations = None
    /\ request = NoRequest
    /\ previous = NoRequest
    /\ display = <<>>
    /\ callers = [t \in Callers |-> NoCaller]

mainVars == <<pc, region_name, snapshot, recommendations, request, previous, display>>

\* Time passes between any two operations.
Tick ==
    /\ now + TickHours <= MaxTime
    /\ now' = now + TickHours
    /\ UNCHANGED <<cache, last, mainVars, callers>>

-----------------------------------------------------------------------------
(* SpecService: the fetchers called directly on one service instance.      *)

CallFsdn ==
    \E region \in RegionNames, http \in HttpOutcomes("fsdn") :
        LET r == get_fsdn_data(cache, now, region, http) IN
        /\ last.n < MaxFetches
        /\ cache' = r.cache
        /\ last' = FetchRecord(last.n + 1, "fsdn", http, r)
        /\ UNCHANGED <<now, mainVars, callers>>

CallFast ==
    \E region \in RegionNames, http \in HttpOutcomes("fast") :
        LET r == get_fast_platform_data(cache, now, region, http) IN
        /\ last.n < MaxFetches
        /\ cache' = r.cache
        /\ last' = FetchRecord(last.n + 1, "fast", http, r)
        /\ UNCHANGED <<now, mainVars, callers>>

CallPrices ==
    \E http \in HttpOutcomes("prices") :
        LET r == get_market_prices(cache, now, http) IN
        /\ last.n < MaxFetches
        /\ cache' = r.cache
        /\ last' = FetchRecord(last.n + 1, "prices", http, r)
        /\ UNCHANGED <<now, mainVars, callers>>

CallWeather ==
    \E xy \in Coordinates, http \in HttpOutcomes("weather") :
        LET r == get_weather_data(cache, now, xy[1], xy[2], http) IN
        /\ last.n < MaxFetches
        /\ cache' = r.cache
        /\ last' = FetchRecord(last.n + 1, "weather", http, r)
        /\ UNCHANGED <<now, mainVars, callers>>

\* get_weather_data called with coordinates of the caller's choice: those of
\* main's regions and a point next to the first, which differs from it in
\* the fourth decimal of the latitude.
NearTuscany == <<437712, 112486>>
WeatherPoints == Coordinates \cup {NearTuscany}

CallWeatherAt ==
    \E xy \in WeatherPoints, http \in HttpOutcomes("weather") :
        LET r == get_weather_data(cache, now, xy[1], xy[2], http) IN
        /\ last.n < MaxFetches
        /\ cache' = r.cache
        /\ last' = FetchRecord(last.n + 1, "weather", http, r)
        /\ UNCHANGED <<now, mainVars, callers>>

NextService == CallFsdn \/ CallFast \/ CallPrices \/ CallWeather \/ Tick

SpecService == Init /\ [][NextService]_vars

\* SpecKeys: the fetchers that take parameters, called with parameters of
\* the caller's choice on one service instance.
NextKeys == CallFsdn \/ CallWeatherAt \/ Tick

SpecKeys == Init /\ [][NextKeys]_vars

\* SpecCache: _cache_data called directly on one service instance, with
\* keys and values of the caller's choice.
PutKeys == {PricesKey, FsdnKey("Tuscany"), FsdnKey("Bavaria")}
PutValues == {LiveBody("prices"), PricesFallback, None}

CachePut ==
    \E key \in PutKeys, data \in PutValues :
        /\ last.n < MaxFetches
        /\ cache' = _cache_data(cache, now, key, data)
        /\ last' = [NoFetch EXCEPT !.n = last.n + 1, !.src = "_cache_data",
                                   !.key = key]
        /\ UNCHANGED <<now, mainVars, callers>>

NextCache == CachePut \/ Tick

SpecCache == Init /\ [][NextCache]_vars

-----------------------------------------------------------------------------
(* SpecOverlap: get_fsdn_data run by two threads on one service instance.   *)
(* The method holds no lock, and requests.get blocks inside it, so the      *)
(* threads interleave between its statements: the validity test of line 43, *)
(* the remote call of lines 47-48 and the store of line 49.                 *)

\* Line 49 with a second validity test in front of the store.
fsdn_store_unless_fresh(c, t, region, data) ==
    IF _is_cache_valid(c, t, FsdnKey(region)) THEN c
    ELSE _cache_data(c, t, FsdnKey(region), data)

\* Line 49: self._cache_data(cache_key, data).
fsdn_store(c, t, region, data) == _cache_data(c, t, FsdnKey(region), data)

\* Another caller is inside the method for the key.
Busy(t, key) ==
    \E u \in Callers \ {t} :
        callers[u].pc \in {"get", "store"} /\ callers[u].key = key

\* Lines 42-44: the key is composed and tested; a fresh entry is returned.
Enter(t) ==
    \E region \in RegionNames :
        LET key == FsdnKey(region)
            hit == _is_cache_valid(cache, now, key) IN
        /\ callers[t].pc = "out"
        /\ callers' = [callers EXCEPT ![t] =
               [NoCaller EXCEPT !.pc = IF hit THEN "done" ELSE "get",
                                !.region = region,
                                !.key = key,
                                !.overlap = Busy(t, key),
                                !.ret = IF hit THEN cache[key].data ELSE None]]
        /\ UNCHANGED <<cache, now, last, mainVars>>

\* Lines 47-48 and 51-56: requests.get and response.json(), or the except
\* clause when one of them raises.
Request(t) ==
    \E http \in HttpOutcomes("fsdn") :
        /\ callers[t].pc = "get"
        /\ callers' = [callers EXCEPT ![t] =
               IF TryError(http) = ""
               THEN [@ EXCEPT !.pc = "store", !.called = TRUE, !.http = http,
                              !.data = http.body]
               ELSE [@ EXCEPT !.pc = "done", !.called = TRUE, !.http = http,
                              !.ret = FsdnFallback]]
        /\ UNCHANGED <<cache, now, last, mainVars>>

\* Lines 49-50: the body is stored and returned.
Store(t) ==
    /\ callers[t].pc = "store"
    /\ cache' = fsdn_store(cache, now, callers[t].region, callers[t].data)
    /\ callers' = [callers EXCEPT ![t] =
           [@ EXCEPT !.pc = "done", !.stored = TRUE, !.ret = callers[t].data]]
    /\ UNCHANGED <<now, last, mainVars>>

NextOverlap ==
    \/ \E t \in Callers : Enter(t)
    \/ \E t \in Callers : Request(t)
    \/ \E t \in Callers : Store(t)
    \/ Tick

SpecOverlap == Init /\ [][NextOverlap]_vars

-----------------------------------------------------------------------------
(* get_recommendations.                                                     *)

\* d.get(key, default) on a dict d.
DictGet(d, key, default) ==
    IF key \in DOMAIN d.items THEN d.items[key] ELSE default

\* v.get exists only on a dict; on any other value it raises AttributeError.
HasGet(v) == v.kind = "dict"

EmptyDict == JDict(<<>>)
Unknown == JStr("Unknown")

\* The exception formatting the prompt raises, "" when none: the fields
\* are evaluated in the order of the template.
PromptError(sustainability_data, weather_data) ==
    IF ~HasGet(weather_data) THEN "AttributeError"
    ELSE IF ~HasGet(DictGet(weather_data, "main", EmptyDict)) THEN "AttributeError"
    ELSE IF ~HasGet(sustainability_data) THEN "AttributeError"
    ELSE ""

\* The prompt, by interpolated field.  market is the value json.dumps
\* serialises; json.dumps accepts every decoded JSON value.
Prompt(region_data, sustainability_data, market_data, weather_data) ==
    [region |-> region_data.name,
     temperature |-> PyStr(DictGet(DictGet(weather_data, "main", EmptyDict), "temp", Unknown)),
     humidity |-> PyStr(DictGet(DictGet(weather_data, "main", EmptyDict), "humidity", Unknown)),
     soil_type |-> region_data.soil_type,
     soil_health |-> PyStr(DictGet(sustainability_data, "soil_health", Unknown)),
     water_efficiency |-> PyStr(DictGet(sustainability_data, "water_efficiency", Unknown)),
     biodiversity |-> PyStr(DictGet(sustainability_data, "biodiversity", Unknown)),
     market |-> market_data]

\* Groq(api_key=GROQ_API_KEY) returns a client, or raises when no key is set.
ClientOutcomes == {"", "GroqError"}

\* client.chat.completions.create followed by choices[0].message.content:
\* raises, or yields the text.
GenOutcomes ==
    {[exc |-> "APIConnectionError", content |-> None],
     [exc |-> "", content |-> JStr("")],
     [exc |-> "", content |-> JStr("Grow wheat")]}

\* A handler that swallows the failure and returns an empty text.
get_recommendations_swallowing(region_data, sustainability_data, market_data, weather_data, client, gen) ==
    [ret |-> IF gen.exc # "" THEN JStr("") ELSE gen.content,
     raised |-> IF client # "" THEN client
                ELSE PromptError(sustainability_data, weather_data),
     shown |-> <<>>, gen_calls |-> 1,
     generation |-> IF gen.exc # "" THEN "failed" ELSE "ok", prompt |-> NoPrompt]

\* What get_recommendations does: ret is the value returned, raised the
\* exception that leaves the function ("" when none), shown what it passes
\* to st.error, gen_calls the number of generation calls issued.
get_recommendations(region_data, sustainability_data, market_data, weather_data, client, gen) ==
    IF client # ""
    THEN [ret |-> None, raised |-> client, shown |-> <<>>, gen_calls |-> 0,
          generation |-> "", prompt |-> NoPrompt]
    ELSE IF PromptError(sustainability_data, weather_data) # ""
    THEN [ret |-> None, raised |-> PromptError(sustainability_data, weather_data),
          shown |-> <<>>, gen_calls |-> 0, generation |-> "", prompt |-> NoPrompt]
    ELSE IF gen.exc # ""
    THEN [ret |-> None, raised |-> "",
          shown |-> <<[st |-> "error",
                       v |-> JStr("Failed to get recommendations: " \o gen.exc)]>>,
          gen_calls |-> 1, generation |-> "failed",
          prompt |-> Prompt(region_data, sustainability_data, market_data, weather_data)]
    ELSE [ret |-> gen.content, raised |-> "", shown |-> <<>>,
          gen_calls |-> 1, generation |-> "ok",
          prompt |-> Prompt(region_data, sustainability_data, market_data, weather_data)]

-----------------------------------------------------------------------------
(* Spec: the button handler of main, lines 161-178.                         *)

Assign(locals, name, value) ==
    [k \in DOMAIN locals \cup {name} |-> IF k = name THEN value ELSE locals[k]]

\* The request after a fetcher call for src with result r.
Fetched(req, src, r) ==
    [req EXCEPT !.called = IF r.called THEN @ \cup {src} ELSE @,
                !.fell = IF r.fell THEN @ \cup {src} ELSE @,
                !.outcome = IF r.raised # "" THEN "uncaught" ELSE @]

\* st.button pressed with a region selected: a new service is constructed.
Click ==
    \E r \in RegionNames :
        /\ pc = "idle"
        /\ region_name' = r
        /\ cache' = __init__
        /\ last' = NoFetch
        /\ snapshot' = NoLocals
        /\ recommendations' = None
        /\ display' = <<>>
        /\ previous' = Summary(request)
        /\ request' = [NoRequest EXCEPT !.region = r, !.start = now]
        /\ pc' = "fsdn"
        /\ UNCHANGED <<now, callers>>

\* sustainability_data = asyncio.run(agri_service.get_fsdn_data(region_name))
MainFsdn ==
    \E http \in HttpOutcomes("fsdn") :
        LET r == get_fsdn_data(cache, now, region_name, http) IN
        /\ pc = "fsdn"
        /\ cache' = r.cache
        /\ last' = FetchRecord(last.n + 1, "fsdn", http, r)
        /\ request' = Fetched(request, "fsdn", r)
        /\ snapshot' = IF r.raised = "" THEN Assign(snapshot, "sustainability", r.ret)
                       ELSE snapshot
        /\ pc' = IF r.raised = "" THEN "prices" ELSE "idle"
        /\ UNCHANGED <<now, region_name, recommendations, previous, display,
                     callers>>

\* market_data = asyncio.run(agri_service.get_market_prices())
MainPrices ==
    \E http \in HttpOutcomes("prices") :
        LET r == get_market_prices(cache, now, http) IN
        /\ pc = "prices"
        /\ cache' = r.cache
        /\ last' = FetchRecord(last.n + 1, "prices", http, r)
        /\ request' = Fetched(request, "prices", r)
        /\ snapshot' = IF r.raised = "" THEN Assign(snapshot, "marketPrices", r.ret)
                       ELSE snapshot
        /\ pc' = IF r.raised = "" THEN "weather" ELSE "idle"
        /\ UNCHANGED <<now, region_name, recommendations, previous, display,
                     callers>>

\* weather_data = asyncio.run(agri_service.get_weather_data(lat, lon))
MainWeather ==
    \E http \in HttpOutcomes("weather") :
        LET xy == regions[region_name].coordinates
            r == get_weather_data(cache, now, xy[1], xy[2], http) IN
        /\ pc = "weather"
        /\ cache' = r.cache
        /\ last' = FetchRecord(last.n + 1, "weather", http, r)
        /\ request' = Fetched(request, "weather", r)
        /\ snapshot' = IF r.raised = "" THEN Assign(snapshot, "weather", r.ret)
                       ELSE snapshot
        /\ pc' = IF r.raised = "" THEN "recommend" ELSE "idle"
        /\ UNCHANGED <<now, region_name, recommendations, previous, display,
                     callers>>

\* recommendations = get_recommendations(region_data, sustainability_data,
\*                                       market_data, weather_data)
MainRecommend ==
    \E client \in ClientOutcomes, gen \in GenOutcomes :
        LET res == get_recommendations(regions[region_name],
                                       snapshot["sustainability"],
                                       snapshot["marketPrices"],
                                       snapshot["weather"], client, gen) IN
        /\ pc = "recommend"
        /\ display' = display \o res.shown
        /\ request' = [request EXCEPT
                          !.prompt = res.prompt,
                          !.gen_calls = res.gen_calls,
                          !.generation = res.generation,
                          !.outcome = IF res.raised # "" THEN "uncaught"
                                      ELSE IF res.generation = "failed"
                                      THEN "GenerationFailure"
                                      ELSE "text"]
        /\ recommendations' = IF res.raised = "" THEN res.ret ELSE recommendations
        /\ pc' = IF res.raised = "" THEN "write" ELSE "idle"
        /\ UNCHANGED <<cache, now, last, region_name, snapshot, previous,
                     callers>>

\* st.write("### Sustainable Crop Recommendations"); st.write(recommendations)
MainWrite ==
    /\ pc = "write"
    /\ display' = display \o
           <<[st |-> "write", v |-> JStr("### Sustainable Crop Recommendations")],
             [st |-> "write", v |-> recommendations]>>
    /\ pc' = "idle"
    /\ UNCHANGED <<cache, now, last, region_name, snapshot, recommendations,
                   request, previous, callers>>

Next ==
    Click \/ MainFsdn \/ MainPrices \/ MainWeather \/ MainRecommend
    \/ MainWrite \/ Tick

Spec == Init /\ [][Next]_vars

-----------------------------------------------------------------------------
(* Vocabulary of the properties.                                            *)

\* The failure classes of a remote call: a network error, a non-success
\* status, a body that does not decode.
RemoteFailed(http) ==
    \/ http.exc # ""
    \/ http.status # 200
    \/ http.body.kind = "undecodable"

FallbackOf(src, e) ==
    CASE src = "fsdn" -> FsdnFallback
      [] src = "fast" -> FastFallback
      [] src = "prices" -> PricesFallback
      [] OTHER -> WeatherFallback(e)

IsFallback(src, v) == \E e \in ExceptionClasses : v = FallbackOf(src, e)

DictHas(v, keys) == v.kind = "dict" /\ keys \subseteq DOMAIN v.items

SustainabilityLevels == {"soil_health", "water_efficiency", "biodiversity"}

\* The shape of a source's data: the sustainability levels (at the top, where
\* the prompt reads them, or under sustainability_metrics, where the fallback
\* has them), the practice data, the price table, the weather observation.
HasLiveShape(src, v) ==
    CASE src = "fsdn" ->
             \/ DictHas(v, SustainabilityLevels)
             \/ /\ DictHas(v, {"sustainability_metrics"})
                /\ DictHas(v.items["sustainability_metrics"], SustainabilityLevels)
      [] src = "fast" -> DictHas(v, {"soil_nutrients", "recommended_practices"})
      [] src = "prices" ->
             /\ v.kind = "dict"
             /\ \A crop \in DOMAIN v.items : DictHas(v.items[crop], {"price", "unit"})
      [] OTHER ->
             /\ DictHas(v, {"main"})
             /\ DictHas(v.items["main"], {"temp", "humidity"})

\* The remote call raised: requests.get or response.json.
RemoteRaised(http) == http.exc # "" \/ http.body.kind = "undecodable"

\* The snapshot fields main assigns.
MainFields == {"sustainability", "marketPrices", "weather"}

\* The step is a fetcher call.
FetchStep == last'.n = last.n + 1

-----------------------------------------------------------------------------
(* C1..C4: the fetchers on one service instance (SpecService).              *)

\* C1: every fetcher call returns to its caller without an exception, and
\* the value returned is the source's fallback or has the source's live
\* shape, for every outcome of the remote call and every cache state.
C1_FetchReturnsShapedValue ==
    last.n > 0 =>
        /\ last.raised = ""
        /\ IsFallback(last.src, last.ret) \/ HasLiveShape(last.src, last.ret)

\* C2: a remote call that ends in a network error, a non-success response
\* or an undecodable body makes the fetcher return the fallback and leave
\* the cache as it was.
C2_FailuresCollapse ==
    [][(FetchStep /\ last'.called /\ RemoteFailed(last'.http)) =>
          /\ IsFallback(last'.src, last'.ret)
          /\ cache' = cache]_vars

\* C3: a fetch that falls back leaves the whole cache unchanged, its key is
\* not fresh afterwards, and the next fetch for that key issues the remote
\* call again.
C3_FallbackNeverCached ==
    [][/\ (FetchStep /\ last'.fell) =>
             /\ cache' = cache
             /\ ~_is_cache_valid(cache', now', last'.key)
       /\ (FetchStep /\ last.fell /\ last'.key = last.key) => last'.called]_vars

\* Two fetches in a row fell back and nothing was stored.
C3_Witness == last.n >= 2 /\ last.fell /\ last.called /\ cache = EmptyCache

\* C4: a key is fresh right after a successful live fetch for it, and a
\* fresh entry is left as it is by every operation and stays fresh exactly
\* while less than cache_duration has passed since its store.
C4_FreshUntilTTL ==
    [][/\ (FetchStep /\ last'.called /\ ~last'.fell /\ last'.raised = "") =>
             _is_cache_valid(cache', now', last'.key)
       /\ \A k \in DOMAIN cache :
             _is_cache_valid(cache, now, k) =>
                 /\ k \in DOMAIN cache'
                 /\ cache'[k] = cache[k]
                 /\ _is_cache_valid(cache', now', k)
                        <=> (now' - cache[k].timestamp < cache_duration)]_vars

\* An entry stored earlier is still fresh after a later fetch of another
\* key that fell back.
C4_Witness ==
    \E k \in DOMAIN cache :
        /\ _is_cache_valid(cache, now, k)
        /\ now > cache[k].timestamp
        /\ last.n >= 2 /\ last.key # k /\ last.fell

-----------------------------------------------------------------------------
(* C5..C10: the requests of main (Spec).                                    *)

MainSources == {"fsdn", "prices", "weather"}

SourceOf(field) ==
    CASE field = "sustainability" -> "fsdn"
      [] field = "marketPrices" -> "prices"
      [] OTHER -> "weather"

\* The position of main at which the field's fetcher is called.
PcOf(field) == SourceOf(field)

\* The four fields C5 expects of a snapshot.  main binds the three of
\* MainFields; nothing in it holds practice data.
SnapshotFields == MainFields \cup {"practices"}

\* C5: a request reaches the recommendation step with all four snapshot
\* fields populated, whichever sources failed.
C5_AllFieldsPopulated ==
    pc \in {"recommend", "write"} => DOMAIN snapshot = SnapshotFields

\* C6: in the second of two consecutive requests for the same region within
\* the TTL window, a source issues a live call exactly if it fell back in
\* the first.
C6_SecondRequestServedFromCache ==
    (/\ pc = "recommend"
     /\ previous.region = request.region
     /\ now - previous.start < cache_duration) =>
        \A src \in MainSources :
            (src \in request.called) <=> (src \in previous.fell)

\* C7: each fetcher call of a request sets its own snapshot field, to the
\* source's fallback if the source failed and to the value the remote call
\* delivered otherwise, and leaves every other field as it was; the fields
\* stay as they are until the request ends.
C7_FieldsIndependent ==
    [][/\ \A f \in DOMAIN snapshot' \ DOMAIN snapshot :
             /\ pc = PcOf(f)
             /\ SourceOf(f) \in request'.fell <=> RemoteRaised(last'.http)
             /\ snapshot' =
                    Assign(snapshot, f,
                           IF SourceOf(f) \in request'.fell
                           THEN FallbackOf(SourceOf(f), TryError(last'.http))
                           ELSE last'.http.body)
       /\ \A f \in DOMAIN snapshot :
             pc' # "fsdn" => f \in DOMAIN snapshot' /\ snapshot'[f] = snapshot[f]
       /\ pc' \in {"recommend", "write"} => MainFields \subseteq DOMAIN snapshot']_vars

\* Tuscany, market prices failed and the other sources delivered.
C7_Witness ==
    /\ pc = "recommend"
    /\ region_name = "Tuscany"
    /\ request.fell = {"prices"}
    /\ snapshot["marketPrices"] = PricesFallback
    /\ snapshot["sustainability"] = LiveBody("fsdn")
    /\ snapshot["weather"] = LiveBody("weather")

\* C8: when all sources fail, the prompt shows "Unknown" for temperature and
\* humidity and the fallback's levels for the three sustainability lines.
C8_FallbackPrompt ==
    (request.fell = MainSources /\ request.gen_calls > 0) =>
        /\ request.prompt.temperature = "Unknown"
        /\ request.prompt.humidity = "Unknown"
        /\ request.prompt.soil_health = "medium"
        /\ request.prompt.water_efficiency = "high"
        /\ request.prompt.biodiversity = "medium"

\* What st.error and st.write have shown.
Shown(kind) == {display[i].v : i \in {j \in DOMAIN display : display[j].st = kind}}

Heading == JStr("### Sustainable Crop Recommendations")

\* C9: a request whose generation call failed made that call once, has no
\* recommendation text (the value returned is None, nothing but the heading
\* and None is written) and shows the failure; a request whose generation
\* call succeeded has a text, also an empty one, and shows no failure.
C9_GenerationFailure ==
    /\ request.generation = "failed" =>
           /\ request.gen_calls = 1
           /\ recommendations = None
           /\ Shown("error") # {}
           /\ Shown("write") \subseteq {Heading, None}
    /\ request.generation = "ok" =>
           /\ recommendations.kind = "str"
           /\ Shown("error") = {}

\* A request ended with a failed generation call.
C9_Witness ==
    /\ pc = "idle"
    /\ request.generation = "failed"
    /\ Len(display) = 3

\* C10: a request ends with a recommendation text or with GenerationFailure,
\* never with another error.
C10_OnlyGenerationFailure ==
    request.outcome \in {"", "text", "GenerationFailure"}

-----------------------------------------------------------------------------
(* C11..C20: the cache and the fetchers (SpecService unless said).          *)

\* The keys the fetchers of the model can compose.
AllKeys ==
    {FsdnKey(r) : r \in RegionNames} \cup {FastKey(r) : r \in RegionNames}
    \cup {PricesKey} \cup {WeatherKey(xy[1], xy[2]) : xy \in Coordinates}

\* _is_cache_valid agrees with "present and younger than 24 hours" on the
\* cache c at time t, for every key.
FreshIffYoung(c, t) ==
    \A k \in AllKeys :
        _is_cache_valid(c, t, k) <=> (k \in DOMAIN c /\ t - c[k].timestamp < 24)

\* C11: _is_cache_valid(key) is true exactly when the key is present and
\* now - timestamp is strictly less than 24 hours (false for an absent key,
\* false at an age of 24 hours or more), and a fetcher that only evaluates
\* it, without reaching the store, leaves the cache as it was.
C11_IsFresh ==
    [][/\ FreshIffYoung(cache, now)
       /\ FreshIffYoung(cache', now')
       /\ (FetchStep /\ (~last'.called \/ last'.fell)) => cache' = cache]_vars

\* A fetch found an entry at the age of exactly 24 hours and went to the
\* remote side, while another key is absent.
C11_Witness ==
    /\ last.n >= 2 /\ last.called
    /\ last.key \in DOMAIN cache
    /\ now - cache[last.key].timestamp = 24
    /\ AllKeys \ DOMAIN cache # {}

\* C12: a fetch whose key is fresh returns the data stored under the key and
\* issues no remote call; a fetch whose key is absent or stale issues one.
C12_FreshServedFromCache ==
    [][FetchStep =>
          IF _is_cache_valid(cache, now, last'.key)
          THEN /\ ~last'.called
               /\ last'.ret = cache[last'.key].data
               /\ cache' = cache
          ELSE last'.called]_vars

\* The second fetch was served from a fresh entry.
C12_Witness ==
    /\ last.n >= 2 /\ ~last.called
    /\ _is_cache_valid(cache, now, last.key)
    /\ last.ret = cache[last.key].data


\* The step is a live fetch for key k whose try block ran to its end.
SuccessfulLiveFetch(k) ==
    /\ FetchStep
    /\ last'.key = k /\ last'.called /\ ~last'.fell /\ last'.raised = ""

\* C14: no eviction. Over fetches and the passage of time on one service
\* instance the key set never shrinks, and an entry that is stale keeps its
\* value and timestamp in every step but a successful live fetch for its key.
C14_NoEviction ==
    [][/\ DOMAIN cache \subseteq DOMAIN cache'
       /\ \A k \in DOMAIN cache :
             (~_is_cache_valid(cache, now, k) /\ ~SuccessfulLiveFetch(k))
                 => cache'[k] = cache[k]]_vars

\* A stale entry survived a failed live fetch for its own key.
C14_Witness ==
    /\ last.n >= 2 /\ last.called /\ last.fell
    /\ last.key \in DOMAIN cache
    /\ ~_is_cache_valid(cache, now, last.key)

\* C19: a fetch for a key that holds a stale entry, whose remote call raises,
\* returns the fallback of the source and not the stale value; the entry is
\* untouched and still not fresh.
C19_StaleNotServedOnFailure ==
    [][(/\ FetchStep
        /\ last'.key \in DOMAIN cache
        /\ ~_is_cache_valid(cache, now, last'.key)
        /\ RemoteRaised(last'.http))
          => /\ last'.called /\ last'.fell
             /\ last'.ret = FallbackOf(last'.src, TryError(last'.http))
             /\ last'.ret # cache[last'.key].data
             /\ cache'[last'.key] = cache[last'.key]
             /\ cache' = cache
             /\ ~_is_cache_valid(cache', now', last'.key)]_vars

\* The refetch of a stale live value failed: the caller got the fallback
\* while the cache still holds the older live value.
C19_Witness ==
    /\ last.n >= 2 /\ last.fell
    /\ last.key \in DOMAIN cache
    /\ now - cache[last.key].timestamp >= 24
    /\ HasLiveShape(last.src, cache[last.key].data)
    /\ last.ret = FallbackOf(last.src, TryError(last.http))
    /\ last.ret # cache[last.key].data

\* C20: a cache hit leaves the entry's timestamp and value as they were; a
\* timestamp is only ever set, to the current time, by a successful live
\* fetch for the key, and the entry is stale once 24 hours have passed since.
C20_HitDoesNotExtendLife ==
    [][/\ (FetchStep /\ ~last'.called) =>
              /\ last'.key \in DOMAIN cache
              /\ cache'[last'.key] = cache[last'.key]
       /\ \A k \in DOMAIN cache' :
              (k \notin DOMAIN cache \/ cache'[k] # cache[k])
                  => SuccessfulLiveFetch(k) /\ cache'[k].timestamp = now'
       /\ \A k \in DOMAIN cache' :
              now' - cache'[k].timestamp >= 24
                  => ~_is_cache_valid(cache', now', k)]_vars

\* An entry stored 24 hours ago and read from the cache since is stale.
C20_Witness ==
    /\ last.n >= 2 /\ ~last.called
    /\ last.key \in DOMAIN cache
    /\ now - cache[last.key].timestamp = 24
    /\ ~_is_cache_valid(cache, now, last.key)


\* Region identifiers a caller may pass: the regions of main and strings
\* chosen to resemble the other sources' keys.
RegionIds == RegionNames \cup {"", "prices", "Tuscany_fast", "weather_0_0"}

\* The invocations of the fetchers on main's regions, one record per
\* source, argument and remote outcome.
Invocations ==
    [src : {"fsdn"}, region : RegionNames, xy : {<<0, 0>>},
     http : HttpOutcomes("fsdn")]
    \cup [src : {"fast"}, region : RegionNames, xy : {<<0, 0>>},
          http : HttpOutcomes("fast")]
    \cup [src : {"prices"}, region : {""}, xy : {<<0, 0>>},
          http : HttpOutcomes("prices")]
    \cup [src : {"weather"}, region : {""}, xy : Coordinates,
          http : HttpOutcomes("weather")]

\* The invocation i run on the cache c at time t.
Invoke(c, t, i) ==
    CASE i.src = "fsdn" -> get_fsdn_data(c, t, i.region, i.http)
      [] i.src = "fast" -> get_fast_platform_data(c, t, i.region, i.http)
      [] i.src = "prices" -> get_market_prices(c, t, i.http)
      [] OTHER -> get_weather_data(c, t, i.xy[1], i.xy[2], i.http)

\* The key an invocation works on.
KeyOf ==
    [i \in Invocations |->
        CASE i.src = "fsdn" -> FsdnKey(i.region)
          [] i.src = "fast" -> FastKey(i.region)
          [] i.src = "prices" -> PricesKey
          [] OTHER -> WeatherKey(i.xy[1], i.xy[2])]

\* The step is the invocation a.
Invoked(a) ==
    /\ FetchStep
    /\ a.src = last'.src /\ KeyOf[a] = last'.key
    /\ a.http = IF last'.called THEN last'.http ELSE ConnectionError

\* The fetcher that made the step and any fetcher of another source, run
\* after it or before it, return the same values and leave the same cache.
Commute ==
    \A a \in Invocations :
        Invoked(a) =>
            \A b \in Invocations :
                b.src # a.src =>
                    \A rb \in {Invoke(cache, now, b)} :
                    \A rab \in {Invoke(cache', now, b)} :
                    \A rba \in {Invoke(rb.cache, now, a)} :
                        /\ rab.cache = rba.cache
                        /\ rab.ret = rb.ret /\ rab.called = rb.called
                        /\ rba.ret = last'.ret /\ rba.called = last'.called

\* The keys of the four sources are pairwise different whatever the region
\* identifiers and the coordinates.
KeysDiffer ==
    \A r1, r2 \in RegionIds, xy \in Coordinates :
        Cardinality({FsdnKey(r1), FastKey(r2), PricesKey,
                     WeatherKey(xy[1], xy[2])}) = 4

\* C16: the keys of the four fetchers are pairwise different for every
\* region identifier and coordinate pair; a fetcher reads and writes no
\* entry but the one of its own key, so that fetchers of different sources
\* run in either order give the same results and the same final cache.
C16_DisjointKeys ==
    [][/\ KeysDiffer
       /\ \A k \in DOMAIN cache' :
              (k \notin DOMAIN cache \/ cache'[k] # cache[k]) =>
                  /\ FetchStep /\ k = last'.key
                  /\ \E i \in Invocations :
                         i.src = last'.src /\ KeyOf[i] = k
                  /\ \A i \in Invocations :
                         KeyOf[i] = k => i.src = last'.src
       /\ Commute]_vars

\* The cache holds entries of two sources for the same region, with
\* different values, the second stored while the first was fresh.
C16_Witness ==
    /\ last.n >= 2 /\ last.src = "fast" /\ last.called /\ ~last.fell
    /\ {FsdnKey("Tuscany"), FastKey("Tuscany")} \subseteq DOMAIN cache
    /\ last.key = FastKey("Tuscany")
    /\ _is_cache_valid(cache, now, FsdnKey("Tuscany"))
    /\ cache[FsdnKey("Tuscany")].data # cache[FastKey("Tuscany")].data


\* The position of main after the fetcher call made at position p returns.
AfterFetch(p) ==
    CASE p = "fsdn" -> "prices"
      [] p = "prices" -> "weather"
      [] OTHER -> "recommend"

\* C15 (Spec): get_recommendations starts only after every fetcher the
\* request invokes has returned, and there is no early exit: a fetcher that
\* falls back is followed by the next fetcher, and the locals that make the
\* snapshot are all assigned when the recommendation step is reached.
C15_RecommendAfterAllFetchers ==
    [][/\ pc = "recommend" =>
              /\ request.called = MainSources
              /\ MainFields \subseteq DOMAIN snapshot
              /\ last.n = Cardinality(MainSources)
       /\ (request'.gen_calls > request.gen_calls
              \/ request'.prompt \notin {request.prompt, NoPrompt})
              => pc = "recommend"
       /\ pc \in MainSources =>
              /\ pc' \in {pc, AfterFetch(pc)}
              /\ pc' = AfterFetch(pc) =>
                     /\ FetchStep /\ last'.src = pc
                     /\ DOMAIN snapshot' = DOMAIN snapshot
                            \cup {f \in MainFields : SourceOf(f) = pc}
       /\ (FetchStep /\ last'.fell) => pc' = AfterFetch(pc)]_vars

\* The first fetcher of the request fell back, the other two were invoked
\* all the same and the recommendation step is about to start.
C15_Witness ==
    /\ pc = "recommend"
    /\ request.fell = {"fsdn"}
    /\ request.called = MainSources
    /\ snapshot["sustainability"] = FsdnFallback
    /\ request.gen_calls = 0


(* C18: cache keys and request parameters (SpecKeys).                       *)

\* The key of a weather request for the point p.
PointKey(p) == WeatherKey(p[1], p[2])

\* The point p with both coordinates rounded to two decimals.
Rounded(p) == <<Round2(p[1]), Round2(p[2])>>

\* Requests for regions share a key exactly if the region is the same.
RegionKeysExact ==
    \A r1, r2 \in RegionIds :
        /\ FsdnKey(r1) = FsdnKey(r2) <=> r1 = r2
        /\ FastKey(r1) = FastKey(r2) <=> r1 = r2

\* Weather requests share a key exactly if their coordinates round to the
\* same pair.
PointKeysRounded ==
    \A p, q \in WeatherPoints : PointKey(p) = PointKey(q) <=> Rounded(p) = Rounded(q)

\* Weather requests share a key exactly if their coordinates are the same.
PointKeysExact ==
    \A p, q \in WeatherPoints : PointKey(p) = PointKey(q) <=> p = q

\* C18 as stated: the key is a function of the source and the parameters,
\* the coordinates taken rounded: requests with the same region, or with
\* coordinates that round to the same pair, have the same key and share one
\* entry (the second is served from the entry the first stored), and
\* requests that differ otherwise have different keys.
C18_RoundedCoordinatesShareEntry ==
    [][/\ RegionKeysExact
       /\ PointKeysRounded
       /\ (FetchStep /\ last'.src = "weather") =>
              \A p, q \in WeatherPoints :
                  (/\ PointKey(q) = last'.key
                   /\ Rounded(p) = Rounded(q)
                   /\ _is_cache_valid(cache, now, PointKey(p)))
                      => /\ ~last'.called
                         /\ last'.ret = cache[PointKey(p)].data]_vars

\* C18 amended: the key is a function of the source and the parameters as
\* passed, the coordinates unrounded: requests with the same region or the
\* same coordinates have the same key and share one entry, and requests
\* that differ, also in coordinates that round to the same pair, have
\* different keys and separate entries.
C18_ExactParametersShareEntry ==
    [][/\ RegionKeysExact
       /\ PointKeysExact
       /\ (FetchStep /\ last'.src = "weather") =>
              \A q \in WeatherPoints :
                  PointKey(q) = last'.key =>
                      /\ ~last'.called <=>
                             \E p \in WeatherPoints :
                                 p = q /\ _is_cache_valid(cache, now, PointKey(p))
                      /\ ~last'.called => last'.ret = cache[PointKey(q)].data
                      /\ \A p \in WeatherPoints \ {q} :
                             /\ PointKey(p) \in DOMAIN cache' <=>
                                    PointKey(p) \in DOMAIN cache
                             /\ PointKey(p) \in DOMAIN cache =>
                                    cache'[PointKey(p)] = cache[PointKey(p)]]_vars

\* Two weather requests whose coordinates round to the same pair each made
\* a live call within the same hour and hold an entry each.
C18_Witness ==
    /\ last.n >= 2 /\ last.called /\ ~last.fell
    /\ last.key = PointKey(NearTuscany)
    /\ Rounded(NearTuscany) = Rounded(regions["Tuscany"].coordinates)
    /\ PointKey(regions["Tuscany"].coordinates) \in DOMAIN cache
    /\ _is_cache_valid(cache, now, PointKey(regions["Tuscany"].coordinates))
    /\ PointKey(NearTuscany) # PointKey(regions["Tuscany"].coordinates)


(* C13: _cache_data (SpecCache).                                            *)

\* The step is a call of _cache_data.
PutStep == last'.n = last.n + 1 /\ last'.src = "_cache_data"

\* C13: _cache_data(key, data) overwrites unconditionally: whether the key
\* was absent, stale or fresh, afterwards its entry holds exactly data with
\* the current time as timestamp, and the entry of every other key is as it
\* was.
C13_PutOverwrites ==
    [][/\ \A key \in PutKeys, data \in PutValues :
              LET c == _cache_data(cache, now, key, data) IN
              /\ DOMAIN c = DOMAIN cache \cup {key}
              /\ c[key] = [timestamp |-> now, data |-> data]
              /\ \A k \in DOMAIN cache \ {key} : c[k] = cache[k]
       /\ PutStep =>
              /\ DOMAIN cache' = DOMAIN cache \cup {last'.key}
              /\ cache'[last'.key].timestamp = now'
              /\ cache' = _cache_data(cache, now, last'.key,
                                      cache'[last'.key].data)
              /\ \A k \in DOMAIN cache \ {last'.key} : cache'[k] = cache[k]]_vars

\* The only entry of the cache was overwritten while it was fresh and its
\* clock restarted.
C13_Witness ==
    /\ last.n >= 2 /\ last.src = "_cache_data"
    /\ DOMAIN cache = {last.key}
    /\ now = TickHours
    /\ cache[last.key] = [timestamp |-> now, data |-> PricesFallback]


(* C17: overlapping fetches for one key (SpecOverlap).                      *)

\* Caller b entered get_fsdn_data while caller a was inside it for the same
\* key, which was absent or stale.
Overlapping(a, b) ==
    /\ a # b
    /\ callers[b].overlap
    /\ callers[a].key = callers[b].key

\* C17 as stated: of two overlapping fetches for a key that is absent or
\* stale, at most one issues the live call, and the second is served from
\* the cache.
C17_OneLiveCallPerKey ==
    \A a, b \in Callers :
        Overlapping(a, b) =>
            /\ ~(callers[a].called /\ callers[b].called)
            /\ callers[b].pc = "done" =>
                   /\ ~callers[b].called
                   /\ callers[b].ret = cache[callers[b].key].data

\* C17 amended: the validity test, the remote call and the store are
\* separate steps without mutual exclusion.  A fetch is served from the
\* cache exactly if the key is fresh at its own test; otherwise it issues
\* its own live call, once, whatever another fetch for the key has done
\* since; a successful call stores its body with the current time over
\* whatever the key holds by then, and a failed one stores nothing.
C17_EachFetchCallsForItself ==
    [][\A t \in Callers :
          LET before == callers[t]
              after == callers'[t] IN
          /\ (before.pc = "out" /\ after.pc # "out") =>
                 /\ cache' = cache
                 /\ after.overlap = Busy(t, after.key)
                 /\ IF _is_cache_valid(cache, now, after.key)
                    THEN /\ after.pc = "done" /\ ~after.called
                         /\ after.ret = cache[after.key].data
                    ELSE after.pc = "get"
          /\ (before.pc = "get" /\ after.pc # "get") =>
                 /\ cache' = cache
                 /\ after.called /\ ~before.called
                 /\ IF RemoteRaised(after.http)
                    THEN /\ after.pc = "done" /\ ~after.stored
                         /\ after.ret = FsdnFallback
                    ELSE /\ after.pc = "store"
                         /\ after.data = after.http.body
          /\ (before.pc = "store" /\ after.pc # "store") =>
                 /\ after.pc = "done" /\ after.stored
                 /\ after.ret = before.data
                 /\ DOMAIN cache' = DOMAIN cache \cup {before.key}
                 /\ cache'[before.key] =
                        [timestamp |-> now, data |-> before.data]
                 /\ \A k \in DOMAIN cache \ {before.key} : cache'[k] = cache[k]
          /\ after.called # before.called => before.pc = "get"
          /\ before.pc = "done" => after = before]_vars

\* Two overlapping fetches for one key both went to the remote side and
\* both stored; the cache holds the body of the one that stored last, here
\* the one that entered first.
C17_Witness ==
    /\ Overlapping(1, 2)
    /\ callers[1].pc = "done" /\ callers[2].pc = "done"
    /\ callers[1].stored /\ callers[2].stored
    /\ callers[1].data # callers[2].data
    /\ cache[callers[1].key].data = callers[1].data

====
